---- MODULE Spec2Model ----
(***************************************************************************)
(* The two scraping pipelines of the repository:                           *)
(*   EtoroInvestorScraper.scrape_investor        (src/unnamed/part_000)    *)
(*   EtoroAdvancedScraper.scrape_investor_complete                         *)
(*                                     (src/etoro_advanced_scraper.py)     *)
(* A run is a chain of handler steps over one browser session.  Every      *)
(* call on the session is recorded in `trace` with its outcome; exceptions *)
(* are values that flow through the try/except structure of each handler.  *)
(***************************************************************************)
EXTENDS Integers, Sequences, FiniteSets, TLC

(***************************************************************************)
(* Bounds of the model.                                                    *)
(***************************************************************************)
\* a run departs from the nominal run (complete page, healthy session) in at
\* most MaxDev ways: an absent element, a variant content, a session crash
MaxDev == 1

(***************************************************************************)
(* Exceptions and the two kinds of handler clause.                         *)
(***************************************************************************)
NoExc == "none"

\* the exception a session call raises for each outcome of the call
Exc(res) ==
    CASE res = "ok"     -> NoExc
      [] res = "absent" -> "NoSuchElementException"
      [] res = "timeout" -> "TimeoutException"
      [] res = "stuck"  -> "ElementClickInterceptedException"
      [] res = "dead"   -> "WebDriverException"

ExceptOnlyNoSuchElement(exc) == exc \in {"NoSuchElementException", "TimeoutException"}

\* `except Exception as e:` catches every Exception subclass
ExceptException(exc) ==
    exc \in {"NoSuchElementException", "TimeoutException",
             "ElementClickInterceptedException", "WebDriverException",
             "NameError"}

\* `except TimeoutException:` where the code has a bare except
ExceptTimeoutOnly(exc) == exc = "TimeoutException"

\* bare `except:` catches everything
BareExcept(exc) == TRUE

\* what leaves a try block whose clause is `catches`
Uncaught(exc, catches) == IF exc # NoExc /\ ~catches THEN exc ELSE NoExc

(***************************************************************************)
(* Session calls.  A call is up when the session is alive at the entry of  *)
(* the handler and has not crashed at an earlier call site of the handler  *)
(* (die = 0: no crash in this handler; die = s: the session crashes at     *)
(* call site s, and every later call raises).                              *)
(***************************************************************************)
Up(alive, die, s) == alive /\ (die = 0 \/ s < die)

Ev(op, arg, res) == [op |-> op, arg |-> arg, res |-> res]

\* find_element / wait.until: the element is there, or is not, or the session is gone
FindRes(up, present) == IF ~up THEN "dead" ELSE IF present THEN "ok" ELSE "absent"

\* wait.until(presence_of_element_located): gives up after the wait budget
WaitRes(up, present) == IF ~up THEN "dead" ELSE IF present THEN "ok" ELSE "timeout"

\* a call that needs only the session (text, page_source, get, find_elements)
CallRes(up) == IF up THEN "ok" ELSE "dead"

\* element.click() on a tab in state st
ClickRes(up, st) == IF ~up THEN "dead" ELSE IF st = "stuck" THEN "stuck" ELSE "ok"

\* the code without its time.sleep calls
NoSleep(secs) == <<>>

\* time.sleep(secs)
Sleep(secs) == <<Ev("sleep", secs, "ok")>>

\* find_element(sel) followed by .text, at call sites s and s+1
Lookup(sel, present, alive, die, s) ==
    LET f == FindRes(Up(alive, die, s), present)
        t == CallRes(Up(alive, die, s + 1))
    IN  IF f # "ok"
        THEN [exc |-> Exc(f), ev |-> <<Ev("find", sel, f)>>]
        ELSE [exc |-> Exc(t), ev |-> <<Ev("find", sel, f), Ev("text", sel, t)>>]

(***************************************************************************)
(* The page.  The rendered text is abstracted to the set of labelled       *)
(* figures it shows: a label in `labels` means the text holds that figure, *)
(* so the rule for it matches and the element carrying it exists.          *)
(***************************************************************************)
Tabs == {"Stats", "Portfolio", "History"}
TabStates == {"absent", "ok", "stuck"}

ProfilePatterns == {"copiers", "aum", "gain", "risk_score", "max_drawdown", "weekly_dd"}
PerformanceMetrics == {"total_gain", "yearly_return", "monthly_return", "daily_return"}
TradingPatterns == {"total_trades", "profitable_trades", "win_rate", "avg_profit",
                    "avg_loss", "trades_per_week", "avg_holding_time"}
Labels == ProfilePatterns \cup PerformanceMetrics \cup TradingPatterns

\* group(1) of the rule's first match
Capture(l) ==
    CASE l = "copiers" -> "1,234"        [] l = "aum" -> "5M"
      [] l = "gain" -> "+12.5%"          [] l = "risk_score" -> "42"
      [] l = "max_drawdown" -> "-8.1%"   [] l = "weekly_dd" -> "-2.3%"
      [] l = "total_gain" -> "+80%"      [] l = "yearly_return" -> "+20%"
      [] l = "monthly_return" -> "+2%"   [] l = "daily_return" -> "+0.1%"
      [] l = "total_trades" -> "310"     [] l = "profitable_trades" -> "61%"
      [] l = "win_rate" -> "60%"         [] l = "avg_profit" -> "+4%"
      [] l = "avg_loss" -> "-3%"         [] l = "trades_per_week" -> "2.5"
      [] l = "avg_holding_time" -> "3 Months"

\* .text of the element that shows the figure
ElemText(l) ==
    CASE l = "copiers" -> "1,234 Copiers"        [] l = "aum" -> "$5M AUM"
      [] l = "gain" -> "+12.5% Gain"             [] l = "risk_score" -> "Risk Score 42"
      [] l = "max_drawdown" -> "Max Drawdown -8.1%"
      [] l = "weekly_dd" -> "Weekly Drawdown -2.3%"
      [] l = "total_gain" -> "Total Gain +80%"   [] l = "yearly_return" -> "Yearly Return +20%"
      [] l = "monthly_return" -> "Monthly Return +2%"
      [] l = "daily_return" -> "Daily +0.1%"
      [] l = "total_trades" -> "Total Trades 310"
      [] l = "profitable_trades" -> "Profitable 61%"
      [] l = "win_rate" -> "Win Rate 60%"        [] l = "avg_profit" -> "Avg. Profit +4%"
      [] l = "avg_loss" -> "Avg. Loss -3%"       [] l = "trades_per_week" -> "Trades Per Week 2.5"
      [] l = "avg_holding_time" -> "Avg. Holding Time 3 Months"

NameText == "Thomas Parry Jones"
NA == "N/A"
EmptyDict == <<>>
\* datetime.now().isoformat(): the clock is not modelled
Now == "2024-01-01T00:00:00"

(***************************************************************************)
(* Building blocks shared by the handlers.  A block yields the exception   *)
(* that leaves it, the session calls it made and the values it assigned.   *)
(***************************************************************************)
\* b runs only when a raised nothing; what a assigned stays assigned
Chain(a, b) ==
    IF a.exc # NoExc THEN a
    ELSE [exc |-> b.exc, ev |-> a.ev \o b.ev, val |-> a.val @@ b.val]

\* try: d[key] = <lookup>.text   except: <handler>
TryField(key, lk, text, caught, handler) ==
    IF lk.exc = NoExc THEN [exc |-> NoExc, ev |-> lk.ev, val |-> key :> text]
    ELSE IF caught THEN [exc |-> handler.exc, ev |-> lk.ev, val |-> handler.val]
    ELSE [exc |-> lk.exc, ev |-> lk.ev, val |-> EmptyDict]

Assign(key, v) == [exc |-> NoExc, val |-> key :> v]
Pass == [exc |-> NoExc, val |-> EmptyDict]
Skip == [exc |-> NoExc, ev |-> <<>>, val |-> EmptyDict]

\* find_element(<tab>), .click(), time.sleep(secs), at call sites s and s+1
Activate(tab, st, secs, alive, die, s) ==
    LET f == FindRes(Up(alive, die, s), st # "absent")
        c == ClickRes(Up(alive, die, s + 1), st)
    IN  IF f # "ok" THEN [exc |-> Exc(f), ev |-> <<Ev("find", tab, f)>>]
        ELSE IF c # "ok"
             THEN [exc |-> Exc(c), ev |-> <<Ev("find", tab, f), Ev("click", tab, c)>>]
             ELSE [exc |-> NoExc,
                   ev |-> <<Ev("find", tab, f), Ev("click", tab, c)>> \o Sleep(secs)]

Min(a, b) == IF a <= b THEN a ELSE b

\* for item in elems[:cap]: append {'text': item.text, ...} when the text is
\* nonempty; a raising item.text is skipped (`except: continue`).  Item i of
\* the slice is read at call site s0 + i.
RECURSIVE CollectFrom(_, _, _, _, _, _)
CollectFrom(elems, i, n, alive, die, s0) ==
    IF i > n THEN [ev |-> <<>>, val |-> <<>>]
    ELSE LET t    == CallRes(Up(alive, die, s0 + i))
             rest == CollectFrom(elems, i + 1, n, alive, die, s0)
             item == [text |-> elems[i], timestamp |-> Now]
         IN  [ev  |-> <<Ev("text", "item", t)>> \o rest.ev,
              val |-> IF t = "ok" /\ elems[i] # ""
                      THEN <<item>> \o rest.val ELSE rest.val]

CollectItems(elems, cap, alive, die, s0) ==
    CollectFrom(elems, 1, Min(cap, Len(elems)), alive, die, s0)

(***************************************************************************)
(* Text as a sequence of characters, and the two findall patterns of the   *)
(* regex backend.                                                          *)
(***************************************************************************)
Upper == {"A", "B", "E", "L", "S", "U", "Y"}
Lower == {"a"}
Space == {" ", "\n"}
IsWord(c) == c \in Upper \cup Lower

BUY == <<"B", "U", "Y">>
SELL == <<"S", "E", "L", "L">>

StartsWith(text, i, w) ==
    /\ i + Len(w) - 1 <= Len(text)
    /\ SubSeq(text, i, i + Len(w) - 1) = w

\* the number of characters of class cls from position i on, at most max
RECURSIVE Run(_, _, _, _)
Run(text, i, cls, max) ==
    IF max = 0 \/ i > Len(text) \/ text[i] \notin cls THEN 0
    ELSE 1 + Run(text, i + 1, cls, max - 1)

\* \b after position j, whose character is a word character
Boundary(text, j) == j = Len(text) \/ ~IsWord(text[j + 1])

SymbolMax == 5

\* r'\$([A-Z]{1,5})\b' tried at position i: the length of group 1, 0 for no match
MatchInstrument(text, i) ==
    IF text[i] # "$" THEN 0
    ELSE LET run == Run(text, i + 1, Upper, SymbolMax)
             ks  == {k \in 1..run : Boundary(text, i + k)}
         IN  IF ks = {} THEN 0 ELSE CHOOSE k \in ks : \A m \in ks : m <= k

\* re.findall(r'\$([A-Z]{1,5})\b', page_source): group 1 of every match,
\* left to right.  A match is "$" and capital letters, so no match starts
\* inside another and the scan finds the match at every position that has one.
FindInstruments(text) ==
    LET at == SelectSeq([i \in 1..Len(text) |-> i],
                        LAMBDA i : MatchInstrument(text, i) > 0)
    IN  [n \in 1..Len(at) |-> SubSeq(text, at[n] + 1, at[n] + MatchInstrument(text, at[n]))]

\* r'(BUY|SELL)\s+([A-Z]{1,5})' tried at position i: [len, action, symbol], len 0 for no match
MatchTrade(text, i) ==
    LET act == IF StartsWith(text, i, BUY) THEN BUY
               ELSE IF StartsWith(text, i, SELL) THEN SELL ELSE <<>>
        ws  == Run(text, i + Len(act), Space, Len(text))
        sy  == Run(text, i + Len(act) + ws, Upper, SymbolMax)
    IN  IF act = <<>> \/ ws = 0 \/ sy = 0 THEN [len |-> 0]
        ELSE [len |-> Len(act) + ws + sy, action |-> act,
              symbol |-> SubSeq(text, i + Len(act) + ws, i + Len(act) + ws + sy - 1)]

\* [{'action': a, 'symbol': s} for a, s in re.findall(r'(BUY|SELL)\s+([A-Z]{1,5})', body_text)]
RECURSIVE FindTrades(_, _)
FindTrades(text, i) ==
    IF i > Len(text) THEN <<>>
    ELSE LET m == MatchTrade(text, i)
         IN  IF m.len = 0 THEN FindTrades(text, i + 1)
             ELSE <<[action |-> m.action, symbol |-> m.symbol]>>
                  \o FindTrades(text, i + m.len)

\* the distinct elements of a list, in the order of their first occurrence
Distinct(s) ==
    LET first == SelectSeq([i \in 1..Len(s) |-> i],
                           LAMBDA i : \A j \in 1..(i - 1) : s[j] # s[i])
    IN  [n \in 1..Len(first) |-> s[first[n]]]

Range(s) == {s[i] : i \in 1..Len(s)}

Take(s, n) == SubSeq(s, 1, Min(n, Len(s)))

Reverse(s) == [i \in 1..Len(s) |-> s[Len(s) + 1 - i]]

Without(s, D) == SelectSeq(s, LAMBDA x : x \notin D)
Only(s, D) == SelectSeq(s, LAMBDA x : x \in D)

\* the subsets of S with at most k elements
RECURSIVE UpTo(_, _)
UpTo(S, k) ==
    IF k = 0 THEN {{}}
    ELSE LET less == UpTo(S, k - 1)
         IN  less \cup {D \cup {x} : D \in less, x \in S}

\* the iteration orders of a set are moved from the order of insertion by
\* the hashes of its elements: up to MaxMoved elements land behind the others
MaxMoved == 1

\* list(set(instruments)): the language fixes no iteration order for a set of
\* strings (the string hash is keyed per process).  enc lists the elements
\* in insertion order; the orders given are the insertion order, its
\* reverse, and every order that sends up to MaxMoved elements to the end.
SetOrders(enc) ==
    {Reverse(enc)} \cup {Without(enc, D) \o Only(enc, D) : D \in UpTo(Range(enc), MaxMoved)}

PortfolioCap == 50

\* list(set(instruments))[:50], for the iteration order ord of the set
PortfolioOfUncapped(ord) == ord

PortfolioOf(ord) == Take(ord, PortfolioCap)

(***************************************************************************)
(* The risk-score figure.  The part of the page that shows it is a list    *)
(* of elements, each with its text; the body text holds the texts of the   *)
(* elements one per line.                                                  *)
(***************************************************************************)
Digits == {"4", "2", "7"}

Risk == <<"R", "i", "s", "k">>
LowRisk == <<"r", "i", "s", "k">>
Score == <<"S", "c", "o", "r", "e">>
LowScore == <<"s", "c", "o", "r", "e">>
RiskScore == Risk \o <<" ">> \o Score

\* r'[Rr]isk\s*[Ss]core\s*(\d+)' tried at position i: group 1, <<>> for no match
MatchRisk(text, i) ==
    LET w1 == IF StartsWith(text, i, Risk) \/ StartsWith(text, i, LowRisk) THEN 4 ELSE 0
        s1 == Run(text, i + w1, Space, Len(text))
        j  == i + w1 + s1
        w2 == IF StartsWith(text, j, Score) \/ StartsWith(text, j, LowScore) THEN 5 ELSE 0
        s2 == Run(text, j + w2, Space, Len(text))
        k  == j + w2 + s2
        d  == Run(text, k, Digits, Len(text))
    IN  IF w1 = 0 \/ w2 = 0 \/ d = 0 THEN <<>> ELSE SubSeq(text, k, k + d - 1)

\* re.search(pattern, body_text): the leftmost match; match.group(1)
SearchRisk(text) ==
    LET at == {i \in 1..Len(text) : MatchRisk(text, i) # <<>>}
    IN  IF at = {} THEN <<>> ELSE MatchRisk(text, CHOOSE i \in at : \A j \in at : i <= j)

\* contains(text(), 'Risk Score')
Contains(text, w) == \E i \in 1..Len(text) : StartsWith(text, i, w)

\* find_element(By.XPATH, "//*[contains(text(), 'Risk Score')]"): the first
\* such element in document order, 0 when there is none
RiskElement(elems) ==
    LET at == {i \in 1..Len(elems) : Contains(elems[i], RiskScore)}
    IN  IF at = {} THEN 0 ELSE CHOOSE i \in at : \A j \in at : i <= j

\* body.text: the texts of the elements, one per line
RECURSIVE Lines(_)
Lines(elems) ==
    IF elems = <<>> THEN <<>>
    ELSE elems[1] \o (IF Len(elems) = 1 THEN <<>> ELSE <<"\n">>) \o Lines(Tail(elems))

\* a text as the string that goes into the record
RECURSIVE Str(_)
Str(text) == IF text = <<>> THEN "" ELSE text[1] \o Str(Tail(text))

(***************************************************************************)
(* EtoroInvestorScraper: the section extractors (selector backend).        *)
(* Each yields [val, ev, exc]: the value returned, the session calls made, *)
(* and the exception that leaves the method (NoExc when it returns).       *)
(***************************************************************************)
PortfolioItemCap == 10
HistoryItemCap == 20

\* the order in which the page lays its figures out
DocOrder == <<"copiers", "aum", "gain", "risk_score", "max_drawdown", "weekly_dd",
              "total_gain", "yearly_return", "monthly_return", "daily_return",
              "total_trades", "profitable_trades", "win_rate", "avg_profit",
              "avg_loss", "trades_per_week", "avg_holding_time">>

\* find_element returns the first match in document order
FirstShown(p, among) ==
    LET idx == {i \in 1..Len(DocOrder) : DocOrder[i] \in among \cap p.labels}
    IN  DocOrder[CHOOSE i \in idx : \A j \in idx : i <= j]

scrape_profile(p, alive, die) ==
    LET wt == WaitRes(Up(alive, die, 1), p.h1)
        tx == CallRes(Up(alive, die, 2))
        nl == IF wt # "ok"
              THEN [exc |-> Exc(wt), ev |-> <<Ev("wait", "h1", wt)>>]
              ELSE [exc |-> Exc(tx), ev |-> <<Ev("wait", "h1", wt), Ev("text", "h1", tx)>>]
        cl == Lookup("Copiers", "copiers" \in p.labels, alive, die, 3)
        re == RiskElement(p.risk)
        rl == Lookup("Risk Score", re # 0, alive, die, 5)
        n  == TryField("name", nl, NameText, BareExcept(nl.exc), Assign("name", NA))
        c  == TryField("copiers", cl, ElemText("copiers"), BareExcept(cl.exc),
                       Assign("copiers", NA))
        r  == TryField("risk_score", rl, Str(p.risk[re]), BareExcept(rl.exc),
                       Assign("risk_score", NA))
        body == Chain(Chain(n, c), r)
    IN  [val |-> body.val, ev |-> body.ev,
         exc |-> Uncaught(body.exc, ExceptException(body.exc))]

\* the labels whose text makes each `in page_text` test and XPath of scrape_stats succeed
GainLabels == {"gain", "total_gain"}
TradesLabels == {"total_trades", "trades_per_week"}
WinLabels == {"win_rate", "profitable_trades"}

scrape_stats(p, alive, die) ==
    LET tab  == Activate("Stats", p.tabs["Stats"], "2", alive, die, 1)
        tabB == [exc |-> Uncaught(tab.exc, BareExcept(tab.exc)), ev |-> tab.ev,
                 val |-> EmptyDict]
        bl   == Lookup("body", TRUE, alive, die, 3)
        bodB == [exc |-> bl.exc, ev |-> bl.ev, val |-> EmptyDict]
        has(among) == among \cap p.labels # {}
        \* //*[contains(text(), 'Gain')]/following-sibling::*
        gl   == Lookup("Gain", p.sibling, alive, die, 5)
        g    == IF has(GainLabels)
                THEN TryField("gain", gl, Capture(FirstShown(p, GainLabels)),
                              BareExcept(gl.exc), Pass)
                ELSE Skip
        tl   == Lookup("Trades", TRUE, alive, die, 7)
        t    == IF has(TradesLabels)
                THEN TryField("total", tl, ElemText(FirstShown(p, TradesLabels)),
                              BareExcept(tl.exc), Pass)
                ELSE Skip
        wl   == Lookup("Win", TRUE, alive, die, 9)
        w    == IF has(WinLabels)
                THEN TryField("win_rate", wl, ElemText(FirstShown(p, WinLabels)),
                              BareExcept(wl.exc), Pass)
                ELSE Skip
        c1   == Chain(tabB, bodB)
        c2   == Chain(c1, g)
        c3   == Chain(c2, t)
        c4   == Chain(c3, w)
        perf == IF c1.exc = NoExc THEN g.val ELSE EmptyDict
        trd  == (IF c2.exc = NoExc THEN t.val ELSE EmptyDict)
                @@ (IF c3.exc = NoExc THEN w.val ELSE EmptyDict)
    IN  [val |-> ("performance" :> perf) @@ ("trades" :> trd) @@ ("additional" :> EmptyDict),
         ev  |-> c4.ev,
         exc |-> Uncaught(c4.exc, ExceptException(c4.exc))]

\* scrape_portfolio without the `return portfolio` of the tab handler
scrape_portfolio_no_return(p, alive, die) ==
    LET tab == Activate("Portfolio", p.tabs["Portfolio"], "3", alive, die, 1)
        fe  == CallRes(Up(alive, die, 3))
        it  == CollectItems(p.items, PortfolioItemCap, alive, die, 3)
    IN  IF fe # "ok"
        THEN [val |-> <<>>, ev |-> tab.ev \o <<Ev("find_all", "items", fe)>>, exc |-> NoExc]
        ELSE [val |-> it.val, ev |-> tab.ev \o <<Ev("find_all", "items", fe)>> \o it.ev,
              exc |-> NoExc]

scrape_portfolio(p, alive, die) ==
    LET tab == Activate("Portfolio", p.tabs["Portfolio"], "3", alive, die, 1)
        fe  == CallRes(Up(alive, die, 3))
        it  == CollectItems(p.items, PortfolioItemCap, alive, die, 3)
    IN  IF tab.exc # NoExc
        THEN \* except: print("Portfolio tab not found"); return portfolio
             [val |-> <<>>, ev |-> tab.ev,
              exc |-> IF BareExcept(tab.exc) THEN NoExc
                      ELSE Uncaught(tab.exc, ExceptException(tab.exc))]
        ELSE IF fe # "ok"
        THEN [val |-> <<>>, ev |-> tab.ev \o <<Ev("find_all", "items", fe)>>,
              exc |-> Uncaught(Uncaught(Exc(fe), ExceptException(Exc(fe))),
                               ExceptException(Exc(fe)))]
        ELSE [val |-> it.val, ev |-> tab.ev \o <<Ev("find_all", "items", fe)>> \o it.ev,
              exc |-> NoExc]

scrape_trade_history(p, alive, die) ==
    LET tab == Activate("History", p.tabs["History"], "3", alive, die, 1)
        fe  == CallRes(Up(alive, die, 3))
        it  == CollectItems(p.items, HistoryItemCap, alive, die, 3)
        te  == Uncaught(tab.exc, BareExcept(tab.exc))
    IN  IF te # NoExc
        THEN [val |-> <<>>, ev |-> tab.ev, exc |-> Uncaught(te, ExceptException(te))]
        ELSE IF fe # "ok"
        THEN [val |-> <<>>, ev |-> tab.ev \o <<Ev("find_all", "items", fe)>>,
              exc |-> Uncaught(Uncaught(Exc(fe), ExceptException(Exc(fe))),
                               ExceptException(Exc(fe)))]
        ELSE [val |-> it.val, ev |-> tab.ev \o <<Ev("find_all", "items", fe)>> \o it.ev,
              exc |-> NoExc]

(***************************************************************************)
(* EtoroAdvancedScraper: the section extractors (regex backend).           *)
(***************************************************************************)
\* for key, pattern in patterns.items(): match = re.search(pattern, body_text);
\* if match: d[key] = match.group(1)
Found(p, k) ==
    IF k = "risk_score" THEN SearchRisk(Lines(p.risk)) # <<>> ELSE k \in p.labels

SearchAll(patterns, p) ==
    [k \in {k \in patterns : Found(p, k)} |->
        IF k = "risk_score" THEN Str(SearchRisk(Lines(p.risk))) ELSE Capture(k)]

\* find_elements(button); for tab in tabs: if <word> in tab.text.lower():
\* tab.click(); time.sleep(secs); break       -- call sites s, s+1, s+2
ActivateButton(tab, st, secs, alive, die, s) ==
    LET fe == CallRes(Up(alive, die, s))
        tx == CallRes(Up(alive, die, s + 1))
        c  == ClickRes(Up(alive, die, s + 2), st)
        e1 == <<Ev("find_all", "button", fe)>>
        e2 == e1 \o <<Ev("text", "button", tx)>>
        e3 == e2 \o <<Ev("click", tab, c)>>
    IN  IF fe # "ok" THEN [exc |-> Exc(fe), ev |-> e1, val |-> EmptyDict]
        ELSE IF tx # "ok" THEN [exc |-> Exc(tx), ev |-> e2, val |-> EmptyDict]
        ELSE IF st = "absent" THEN [exc |-> NoExc, ev |-> e2, val |-> EmptyDict]
        ELSE IF c # "ok" THEN [exc |-> Exc(c), ev |-> e3, val |-> EmptyDict]
        ELSE [exc |-> NoExc, ev |-> e3 \o Sleep(secs), val |-> EmptyDict]

\* self.driver.find_element(By.TAG_NAME, "body").text, at call sites s and s+1
BodyText(alive, die, s) ==
    LET l == Lookup("body", TRUE, alive, die, s)
    IN  [exc |-> l.exc, ev |-> l.ev, val |-> EmptyDict]

\* `profile['name'] = username` in the handler of the name lookup: the method
\* has no `username` and the module has no such global
NameFallback == [exc |-> "NameError", val |-> EmptyDict]

get_profile_info(p, alive, die) ==
    LET b    == BodyText(alive, die, 1)
        hit  == [exc |-> NoExc, ev |-> <<>>, val |-> SearchAll(ProfilePatterns, p)]
        nl   == Lookup("h1", p.h1, alive, die, 3)
        n    == TryField("name", nl, NameText, BareExcept(nl.exc), NameFallback)
        body == Chain(Chain(b, hit), n)
    IN  [val |-> body.val, ev |-> body.ev,
         exc |-> Uncaught(body.exc, ExceptException(body.exc))]

get_performance_stats(p, alive, die) ==
    LET tab  == ActivateButton("Stats", p.tabs["Stats"], "2", alive, die, 1)
        b    == BodyText(alive, die, 4)
        hit  == [exc |-> NoExc, ev |-> <<>>, val |-> SearchAll(PerformanceMetrics, p)]
        body == Chain(Chain(tab, b), hit)
    IN  [val |-> body.val, ev |-> body.ev,
         exc |-> Uncaught(body.exc, ExceptException(body.exc))]

get_trading_stats(p, alive, die) ==
    LET b    == BodyText(alive, die, 1)
        hit  == [exc |-> NoExc, ev |-> <<>>, val |-> SearchAll(TradingPatterns, p)]
        body == Chain(b, hit)
    IN  [val |-> body.val, ev |-> body.ev,
         exc |-> Uncaught(body.exc, ExceptException(body.exc))]

\* the local `instruments` of get_portfolio_data
Instruments(p) == FindInstruments(p.source)

\* ord: the iteration order of set(instruments)
get_portfolio_data(p, ord, alive, die) ==
    LET tab == ActivateButton("Portfolio", p.tabs["Portfolio"], "3", alive, die, 1)
        ps  == CallRes(Up(alive, die, 4))
        src == [exc |-> Exc(ps), ev |-> <<Ev("page_source", "", ps)>>, val |-> EmptyDict]
        body == Chain(tab, src)
    IN  [val |-> IF body.exc = NoExc THEN PortfolioOf(ord) ELSE <<>>,
         ev  |-> body.ev,
         exc |-> Uncaught(body.exc, ExceptException(body.exc))]

get_open_trades(p, alive, die) ==
    LET b == BodyText(alive, die, 1)
    IN  [val |-> IF b.exc = NoExc THEN FindTrades(p.body, 1) ELSE <<>>,
         ev  |-> b.ev,
         exc |-> Uncaught(b.exc, ExceptException(b.exc))]

get_trade_history(p, alive, die) ==
    LET tab  == ActivateButton("History", p.tabs["History"], "3", alive, die, 1)
        b    == BodyText(alive, die, 4)
        body == Chain(tab, b)
    IN  [val |-> <<>>, ev |-> body.ev,
         exc |-> Uncaught(body.exc, ExceptException(body.exc))]

\* body.text[:5000]: the text is kept as the page holds it
PageText(p) == [labels |-> p.labels, text |-> p.body]

get_raw_data(p, url, alive, die) ==
    LET b  == BodyText(alive, die, 1)
        cu == CallRes(Up(alive, die, 3))
        u  == [exc |-> Exc(cu), ev |-> <<Ev("current_url", "", cu)>>, val |-> EmptyDict]
        body == Chain(b, u)
    IN  [val |-> IF body.exc = NoExc
                 THEN ("page_text" :> PageText(p)) @@ ("url" :> url)
                 ELSE EmptyDict,
         ev  |-> body.ev,
         exc |-> Uncaught(body.exc, BareExcept(body.exc))]

(***************************************************************************)
(* Session bootstrap steps of the two drivers.                             *)
(***************************************************************************)
\* webdriver.Chrome(...) (site 1: no session comes to exist), then the
\* script call on the new session (site 2)
start_driver(die) ==
    LET launch == CallRes(Up(TRUE, die, 1))
        script == CallRes(Up(TRUE, die, 2))
    IN  IF launch # "ok"
        THEN [started |-> FALSE, exc |-> Exc(launch), ev |-> <<Ev("launch", "", launch)>>]
        ELSE [started |-> TRUE, exc |-> Exc(script),
              ev |-> <<Ev("launch", "", launch), Ev("script", "", script)>>]

LoginUrl == "https://www.etoro.com/login"

\* login(): the get is outside the try; the form steps are inside it
login(p, alive, die) ==
    LET g  == CallRes(Up(alive, die, 1))
        w  == WaitRes(Up(alive, die, 2), p.login)
        k1 == CallRes(Up(alive, die, 3))
        f2 == CallRes(Up(alive, die, 4))
        k2 == CallRes(Up(alive, die, 5))
        f3 == CallRes(Up(alive, die, 6))
        c  == CallRes(Up(alive, die, 7))
        e0 == <<Ev("get", LoginUrl, g)>>
        e1 == e0 \o Sleep("3") \o <<Ev("wait", "username", w)>>
        e2 == e1 \o <<Ev("send_keys", "username", k1)>>
        e3 == e2 \o <<Ev("find", "password", f2)>>
        e4 == e3 \o <<Ev("send_keys", "password", k2)>>
        e5 == e4 \o <<Ev("find", "submit", f3)>>
        e6 == e5 \o <<Ev("click", "submit", c)>>
        form == IF w # "ok" THEN [exc |-> Exc(w), ev |-> e1]
                ELSE IF k1 # "ok" THEN [exc |-> Exc(k1), ev |-> e2]
                ELSE IF f2 # "ok" THEN [exc |-> Exc(f2), ev |-> e3]
                ELSE IF k2 # "ok" THEN [exc |-> Exc(k2), ev |-> e4]
                ELSE IF f3 # "ok" THEN [exc |-> Exc(f3), ev |-> e5]
                ELSE IF c # "ok" THEN [exc |-> Exc(c), ev |-> e6]
                ELSE [exc |-> NoExc, ev |-> e6 \o Sleep("5")]
    IN  IF g # "ok" THEN [exc |-> Exc(g), ev |-> e0]
        ELSE [exc |-> Uncaught(form.exc, ExceptException(form.exc)), ev |-> form.ev]

ProfileUrlNoUser(u) == "https://www.etoro.com/people/"

\* f"https://www.etoro.com/people/{username}"
ProfileUrl(u) == "https://www.etoro.com/people/" \o u

\* self.driver.get(url); time.sleep(5)
navigate(url, alive, die) ==
    LET g == CallRes(Up(alive, die, 1))
    IN  IF g # "ok" THEN [exc |-> Exc(g), ev |-> <<Ev("get", url, g)>>]
        ELSE [exc |-> NoExc, ev |-> <<Ev("get", url, g)>> \o Sleep("5")]

\* the cookie consent block of scrape_investor_complete
consent(p, alive, die) ==
    LET a == Activate("consent", p.consent, "1", alive, die, 1)
    IN  [exc |-> Uncaught(a.exc, BareExcept(a.exc)), ev |-> a.ev]

\* close_driver(): `if self.driver: self.driver.quit()`; quit() of the
\* Chromium driver swallows the errors of a lost session
close_driver(sess) ==
    IF sess = "none" THEN <<>>
    ELSE <<Ev("quit", "", IF sess = "alive" THEN "ok" ELSE "dead")>>

(***************************************************************************)
(* Pages and runs.                                                         *)
(***************************************************************************)
ItemsFull == <<"AAPL 5%", "", "TSLA 3%">>
SourceFull == <<"$", "A", " ", "$", "B", " ", "$", "A">>
BodyFull == BUY \o <<" ", "A", " ">> \o SELL \o <<" ", "B">>

RiskFull == <<RiskScore \o <<" ", "4", "2">>>>

ItemLists == {ItemsFull, <<>>, <<"">>}
Sources == {SourceFull, <<>>}
Bodies == {BodyFull, <<>>}
ConsentStates == {"ok", "absent", "stuck"}

\* the number of ways page p departs from the complete page
Dev(p) ==
      (IF p.h1 THEN 0 ELSE 1) + (IF p.consent = "ok" THEN 0 ELSE 1)
    + (IF p.login THEN 0 ELSE 1)
    + Cardinality({t \in Tabs : p.tabs[t] # "ok"})
    + Cardinality(Labels \ p.labels)
    + (IF p.items = ItemsFull THEN 0 ELSE 1)
    + (IF p.source = SourceFull THEN 0 ELSE 1)
    + (IF p.body = BodyFull THEN 0 ELSE 1)
    + (IF p.sibling THEN 0 ELSE 1)

LabelSets == {Labels \ M : M \in UpTo(Labels, MaxDev)}

\* what a page shows besides its figures
Shapes ==
    {q \in [h1 : BOOLEAN, consent : ConsentStates, login : BOOLEAN,
            tabs : [Tabs -> TabStates], items : ItemLists, source : Sources,
            body : Bodies, sibling : BOOLEAN] :
        Dev([labels |-> Labels] @@ q) <= MaxDev}

\* the pages of the runs (Init keeps those that depart from the complete
\* page in at most MaxDev ways); the risk-score figure is on the page when
\* its label is
Pages ==
    {[h1 |-> q.h1, consent |-> q.consent, login |-> q.login, tabs |-> q.tabs,
      labels |-> L, items |-> q.items, source |-> q.source, body |-> q.body,
      sibling |-> q.sibling,
      risk |-> IF "risk_score" \in L THEN RiskFull ELSE <<>>] :
        q \in Shapes, L \in LabelSets}

PageFull ==
    [h1 |-> TRUE, consent |-> "ok", login |-> TRUE, tabs |-> [t \in Tabs |-> "ok"],
     labels |-> Labels, items |-> ItemsFull, source |-> SourceFull, body |-> BodyFull,
     sibling |-> TRUE, risk |-> RiskFull]

Usernames == {"thomaspj", "jaynemesis"}

VARIABLES
    backend,    \* which scraper class runs: "basic" or "advanced"
    username,   \* the argument of the driver
    creds,      \* self.login_credentials is set
    crashy,     \* the session of this run may crash
    page,       \* what the site serves
    pc,         \* the step the driver is at
    session,    \* self.driver: "none", "alive", "dead" (crashed), "closed"
    record,     \* investor_data
    trace,      \* the calls made so far, with their outcomes
    pending     \* the exception propagating out of the driver

vars == <<backend, username, creds, crashy, page, pc, session, record, trace, pending>>

Init ==
    /\ backend \in {"basic", "advanced"}
    /\ username \in Usernames
    /\ creds \in (IF backend = "advanced" THEN BOOLEAN ELSE {FALSE})
    /\ crashy \in BOOLEAN
    /\ page \in Pages
    /\ Dev(page) + (IF crashy THEN 1 ELSE 0) <= MaxDev
    /\ pc = "start"
    /\ session = "none"
    /\ record = EmptyDict
    /\ trace = <<>>
    /\ pending = NoExc

Alive == session = "alive"

\* the call sites at which the session of this run may crash, of n sites
Dies(n) == IF crashy /\ (Alive \/ pc = "start") THEN 0..n ELSE {0}

After(die) == IF ~Alive THEN session ELSE IF die = 0 THEN "alive" ELSE "dead"

Put(d, k, v) == (k :> v) @@ d

Enter(sec) == <<Ev("enter", sec, "ok")>>

\* the order in which each driver runs its section extractors
BasicOrder == <<"profile", "stats", "portfolio", "history">>
AdvancedOrderHistoryFirst == <<"profile", "performance", "trading", "history",
                               "portfolio", "open_trades", "raw">>

AdvancedOrder == <<"profile", "performance", "trading", "portfolio",
                   "open_trades", "history", "raw">>

Order == IF backend = "basic" THEN BasicOrder ELSE AdvancedOrder

NextOf(sec) ==
    LET i == CHOOSE j \in 1..Len(Order) : Order[j] = sec
    IN  IF i = Len(Order) THEN "close" ELSE Order[i + 1]

\* the key of investor_data each extractor's value goes under
KeyOf(sec) ==
    IF backend = "basic"
    THEN CASE sec = "profile" -> "profile"     [] sec = "stats" -> "stats"
           [] sec = "portfolio" -> "portfolio" [] sec = "history" -> "trade_history"
    ELSE CASE sec = "profile" -> "profile_info"
           [] sec = "performance" -> "performance_stats"
           [] sec = "trading" -> "trading_stats"
           [] sec = "portfolio" -> "portfolio"
           [] sec = "open_trades" -> "open_trades"
           [] sec = "history" -> "trade_history"
           [] sec = "raw" -> "raw_page_data"

\* investor_data as scrape_investor creates it
BasicRecord(u) ==
    [username |-> u, url |-> ProfileUrl(u), scraped_at |-> Now, profile |-> EmptyDict,
     stats |-> EmptyDict, portfolio |-> <<>>, trade_history |-> <<>>]

\* the first three entries of the dict display of scrape_investor_complete
AdvancedRecord(u) == [username |-> u, profile_url |-> ProfileUrl(u), scraped_at |-> Now]

(***************************************************************************)
(* The steps of a run.                                                     *)
(***************************************************************************)
StartDriver ==
    /\ pc = "start"
    /\ \E die \in Dies(2) :
         LET r == start_driver(die)
         IN  /\ trace' = trace \o r.ev
             /\ session' = IF ~r.started THEN "none"
                           ELSE IF die = 0 THEN "alive" ELSE "dead"
             /\ pending' = r.exc
             /\ pc' = IF r.exc # NoExc THEN "raised"
                      ELSE IF backend = "advanced" /\ creds THEN "login"
                      ELSE "navigate"
    /\ UNCHANGED <<backend, username, creds, crashy, page, record>>

Login ==
    /\ pc = "login"
    /\ \E die \in Dies(7) :
         LET r == login(page, Alive, die)
         IN  /\ trace' = trace \o r.ev
             /\ session' = After(die)
             /\ pending' = r.exc
             /\ pc' = IF r.exc # NoExc THEN "raised" ELSE "navigate"
    /\ UNCHANGED <<backend, username, creds, crashy, page, record>>

Navigate ==
    /\ pc = "navigate"
    /\ \E die \in Dies(1) :
         LET r == navigate(ProfileUrl(username), Alive, die)
         IN  /\ trace' = trace \o r.ev
             /\ session' = After(die)
             /\ pending' = r.exc
             /\ pc' = IF r.exc # NoExc THEN "raised"
                      ELSE IF backend = "advanced" THEN "consent" ELSE Order[1]
             /\ record' = IF r.exc = NoExc /\ backend = "basic"
                          THEN BasicRecord(username) ELSE record
    /\ UNCHANGED <<backend, username, creds, crashy, page>>

Consent ==
    /\ pc = "consent"
    /\ \E die \in Dies(2) :
         LET r == consent(page, Alive, die)
         IN  /\ trace' = trace \o r.ev
             /\ session' = After(die)
             /\ pending' = r.exc
             /\ pc' = IF r.exc # NoExc THEN "raised" ELSE Order[1]
             /\ record' = IF r.exc = NoExc THEN AdvancedRecord(username) ELSE record
    /\ UNCHANGED <<backend, username, creds, crashy, page>>

\* scrape_investor: the try / except Exception / finally around the extractors
BasicStep(sec, r, die) ==
    /\ trace' = trace \o Enter(sec) \o r.ev
    /\ session' = After(die)
    /\ IF r.exc = NoExc
       THEN /\ record' = Put(record, KeyOf(sec), r.val)
            /\ pc' = NextOf(sec)
            /\ pending' = NoExc
       ELSE IF ExceptException(r.exc)
       THEN /\ record' = Put(record, "error", r.exc)
            /\ pc' = "close"
            /\ pending' = NoExc
       ELSE /\ record' = record
            /\ pc' = "close"
            /\ pending' = r.exc
    /\ UNCHANGED <<backend, username, creds, crashy, page>>

\* scrape_investor_complete: the dict display, with nothing around it
AdvancedStep(sec, r, die) ==
    /\ trace' = trace \o Enter(sec) \o r.ev
    /\ session' = After(die)
    /\ IF r.exc = NoExc
       THEN /\ record' = Put(record, KeyOf(sec), r.val)
            /\ pc' = NextOf(sec)
            /\ pending' = NoExc
       ELSE /\ record' = record
            /\ pc' = "raised"
            /\ pending' = r.exc
    /\ UNCHANGED <<backend, username, creds, crashy, page>>

ScrapeProfile ==
    /\ backend = "basic" /\ pc = "profile"
    /\ \E die \in Dies(6) : BasicStep("profile", scrape_profile(page, Alive, die), die)

ScrapeStats ==
    /\ backend = "basic" /\ pc = "stats"
    /\ \E die \in Dies(10) : BasicStep("stats", scrape_stats(page, Alive, die), die)

ScrapePortfolio ==
    /\ backend = "basic" /\ pc = "portfolio"
    /\ \E die \in Dies(3 + Min(PortfolioItemCap, Len(page.items))) :
         BasicStep("portfolio", scrape_portfolio(page, Alive, die), die)

ScrapeTradeHistory ==
    /\ backend = "basic" /\ pc = "history"
    /\ \E die \in Dies(3 + Min(HistoryItemCap, Len(page.items))) :
         BasicStep("history", scrape_trade_history(page, Alive, die), die)

GetProfileInfo ==
    /\ backend = "advanced" /\ pc = "profile"
    /\ \E die \in Dies(4) : AdvancedStep("profile", get_profile_info(page, Alive, die), die)

GetPerformanceStats ==
    /\ backend = "advanced" /\ pc = "performance"
    /\ \E die \in Dies(5) :
         AdvancedStep("performance", get_performance_stats(page, Alive, die), die)

GetTradingStats ==
    /\ backend = "advanced" /\ pc = "trading"
    /\ \E die \in Dies(2) : AdvancedStep("trading", get_trading_stats(page, Alive, die), die)

GetPortfolioData ==
    /\ backend = "advanced" /\ pc = "portfolio"
    /\ \E die \in Dies(4) : \E ord \in SetOrders(Distinct(Instruments(page))) :
         AdvancedStep("portfolio", get_portfolio_data(page, ord, Alive, die), die)

GetOpenTrades ==
    /\ backend = "advanced" /\ pc = "open_trades"
    /\ \E die \in Dies(2) :
         AdvancedStep("open_trades", get_open_trades(page, Alive, die), die)

GetTradeHistory ==
    /\ backend = "advanced" /\ pc = "history"
    /\ \E die \in Dies(5) :
         AdvancedStep("history", get_trade_history(page, Alive, die), die)

GetRawData ==
    /\ backend = "advanced" /\ pc = "raw"
    /\ \E die \in Dies(3) :
         AdvancedStep("raw", get_raw_data(page, ProfileUrl(username), Alive, die), die)

\* close_driver() and what follows it: `return investor_data`, or the
\* exception the finally block lets through
CloseDriver ==
    /\ pc = "close"
    /\ trace' = trace \o close_driver(session)
    /\ session' = IF session = "none" THEN "none" ELSE "closed"
    /\ pc' = IF pending = NoExc THEN "returned" ELSE "raised"
    /\ UNCHANGED <<backend, username, creds, crashy, page, record, pending>>

Next ==
    \/ StartDriver \/ Login \/ Navigate \/ Consent
    \/ ScrapeProfile \/ ScrapeStats \/ ScrapePortfolio \/ ScrapeTradeHistory
    \/ GetProfileInfo \/ GetPerformanceStats \/ GetTradingStats \/ GetPortfolioData
    \/ GetOpenTrades \/ GetTradeHistory \/ GetRawData
    \/ CloseDriver

Spec == Init /\ [][Next]_vars

(***************************************************************************)
(* Vocabulary of the properties.                                           *)
(***************************************************************************)
Returned == pc = "returned"
Ended == pc \in {"returned", "raised"}

Positions(op) == {i \in DOMAIN trace : trace[i].op = op}
Quits == Cardinality(Positions("quit"))
\* start_driver has returned: self.driver is a session
SessionStarted == \E i \in Positions("script") : trace[i].res = "ok"

\* the calls that failed because the session was lost
Lost == {i \in DOMAIN trace : trace[i].res = "dead" /\ trace[i].op \notin {"quit", "launch"}}
\* the calls that failed for the page's sake: an absent element, a stuck click
Missed == {i \in DOMAIN trace : trace[i].res \in {"absent", "timeout", "stuck"}}

Entered(sec) == \E i \in Positions("enter") : trace[i].arg = sec
\* the sections entered so far, in the order of entering
RECURSIVE EnteredFrom(_)
EnteredFrom(i) ==
    IF i > Len(trace) THEN <<>>
    ELSE (IF trace[i].op = "enter" THEN <<trace[i].arg>> ELSE <<>>) \o EnteredFrom(i + 1)
EnteredSeq == EnteredFrom(1)

\* the section in which call i was made ("" before the first section)
SectionAt(i) ==
    LET before == {j \in Positions("enter") : j < i}
    IN  IF before = {} THEN ""
        ELSE trace[CHOOSE j \in before : \A k \in before : k <= j].arg

IsPrefix(s, t) == Len(s) <= Len(t) /\ s = SubSeq(t, 1, Len(s))

\* what extractor sec returns on page pg over a healthy session
CleanOn(pg, sec) ==
    IF backend = "basic"
    THEN CASE sec = "profile" -> scrape_profile(pg, TRUE, 0).val
           [] sec = "stats" -> scrape_stats(pg, TRUE, 0).val
           [] sec = "portfolio" -> scrape_portfolio(pg, TRUE, 0).val
           [] sec = "history" -> scrape_trade_history(pg, TRUE, 0).val
    ELSE CASE sec = "profile" -> get_profile_info(pg, TRUE, 0).val
           [] sec = "performance" -> get_performance_stats(pg, TRUE, 0).val
           [] sec = "trading" -> get_trading_stats(pg, TRUE, 0).val
           [] sec = "portfolio" ->
                get_portfolio_data(pg, Distinct(Instruments(pg)), TRUE, 0).val
           [] sec = "open_trades" -> get_open_trades(pg, TRUE, 0).val
           [] sec = "history" -> get_trade_history(pg, TRUE, 0).val
           [] sec = "raw" -> get_raw_data(pg, ProfileUrl(username), TRUE, 0).val

\* the record holds for sec the value of a healthy run on page pg (a
\* portfolio of the regex backend up to order)
HoldsCleanOn(pg, sec) ==
    /\ KeyOf(sec) \in DOMAIN record
    /\ IF backend = "advanced" /\ sec = "portfolio"
       THEN /\ Len(record[KeyOf(sec)]) = Len(CleanOn(pg, sec))
            /\ Range(record[KeyOf(sec)]) = Range(CleanOn(pg, sec))
       ELSE record[KeyOf(sec)] = CleanOn(pg, sec)

HoldsClean(sec) == HoldsCleanOn(page, sec)

(***************************************************************************)
(* C1.  Whenever a run of either driver ends, by returning or by raising,  *)
(* and the browser session had been started, close_driver's quit has been  *)
(* attempted.                                                              *)
(* Fails: the get of the profile URL, login's get and the script call of   *)
(* start_driver are outside every try, so a fault there leaves the driver  *)
(* with the session still open.                                            *)
(***************************************************************************)
C1_TeardownAlways == (Ended /\ SessionStarted) => Quits >= 1

(***************************************************************************)
(* C2.  When the session is lost during a section, the driver still        *)
(* returns a record, the record has an 'error' entry, the sections before  *)
(* the fault hold what they extracted, and quit is called exactly once.    *)
(* Fails: every extractor swallows the session fault, so no driver sees it *)
(* and no 'error' entry is written.                                        *)
(***************************************************************************)
LostInSection == \E i \in Lost : SectionAt(i) # ""

C2_PartialRecordAnnotated ==
    (Ended /\ LostInSection) =>
        /\ Returned
        /\ "error" \in DOMAIN record
        /\ Quits = 1
        /\ \A j \in Positions("enter") :
             (\A i \in Lost : j < i /\ SectionAt(i) # trace[j].arg) => HoldsClean(trace[j].arg)

(***************************************************************************)
(* C3.  Once a session call has failed because the session is lost, no     *)
(* later section is entered: the run goes to teardown.                     *)
(* Fails: the extractor that met the fault returns normally and the driver *)
(* enters the next section.                                                *)
(***************************************************************************)
C3_SessionFaultFatal ==
    \A i \in Lost : \A j \in Positions("enter") : j < i

(***************************************************************************)
(* C4.  No fault leaves a section extractor: whatever the page lacks and   *)
(* whichever call raises, the step of every extractor ends with its value  *)
(* stored under its key, no exception pending, no 'error' entry, and the   *)
(* driver at the next section of its order.                                *)
(***************************************************************************)
Sections == Range(BasicOrder) \cup Range(AdvancedOrder)

C4_ExtractorsReturn ==
    [][(pc \in Sections) =>
         /\ pc' = NextOf(pc)
         /\ pending' = NoExc
         /\ KeyOf(pc) \in DOMAIN record'
         /\ "error" \notin DOMAIN record']_vars

\* a run that met page faults or a lost session inside its sections and returned
C4_Witness ==
    /\ Returned
    /\ \E i \in Missed \cup Lost : SectionAt(i) # ""

(***************************************************************************)
(* C5.  Every returned record holds every field of its backend's schema,   *)
(* as a value or as the unavailable marker.                                *)
(* Fails: the regex backend writes a key only `if match`, and scrape_stats *)
(* writes gain / total / win_rate only when the text shows them.           *)
(***************************************************************************)
C5_SchemaComplete ==
    Returned =>
        IF backend = "advanced"
        THEN /\ ProfilePatterns \cup {"name"} \subseteq DOMAIN record["profile_info"]
             /\ PerformanceMetrics \subseteq DOMAIN record["performance_stats"]
             /\ TradingPatterns \subseteq DOMAIN record["trading_stats"]
        ELSE /\ {"name", "copiers", "risk_score"} \subseteq DOMAIN record["profile"]
             /\ "gain" \in DOMAIN record["stats"]["performance"]
             /\ {"total", "win_rate"} \subseteq DOMAIN record["stats"]["trades"]

(***************************************************************************)
(* C6.  In a run in which no call fails, the extractors are entered in the *)
(* fixed order, each once: profile, performance, trading, portfolio, open  *)
(* trades, history, then the raw snapshot (scrape_investor: profile,       *)
(* stats for performance and trading, portfolio, history); the profile URL *)
(* is fetched once, before the first section, and quit comes once, last.   *)
(***************************************************************************)
FaultFree == \A i \in DOMAIN trace : trace[i].res = "ok"

FixedOrder ==
    IF backend = "basic" THEN <<"profile", "stats", "portfolio", "history">>
    ELSE <<"profile", "performance", "trading", "portfolio", "open_trades",
           "history", "raw">>

ProfileGets ==
    {i \in Positions("get") : trace[i].arg = "https://www.etoro.com/people/" \o username}

C6_FixedOrderOnce ==
    FaultFree =>
        /\ IsPrefix(EnteredSeq, FixedOrder)
        /\ Cardinality(ProfileGets) <= 1
        /\ \A j \in Positions("enter") : \E i \in ProfileGets : i < j
        /\ \A q \in Positions("quit") : q = Len(trace) /\ EnteredSeq = FixedOrder
        /\ Returned => (EnteredSeq = FixedOrder /\ Quits = 1)

C6_Witness == Returned /\ FaultFree /\ backend = "advanced" /\ creds

(***************************************************************************)
(* C7.  When the element that activates a section is absent, the           *)
(* navigator looks for it once, clicks nothing, raises nothing, and the    *)
(* section's extraction is empty.                                          *)
(* As stated it fails: only scrape_portfolio returns early.  scrape_stats  *)
(* ("continuing with current view"), scrape_trade_history,                 *)
(* get_performance_stats and get_portfolio_data go on and extract from     *)
(* the view on display.                                                    *)
(***************************************************************************)
TabOf(sec) ==
    CASE sec \in {"stats", "performance"} -> "Stats"
      [] sec = "portfolio" -> "Portfolio"
      [] sec = "history" -> "History"

Navigated == {sec \in Sections : sec \in {"stats", "performance", "portfolio", "history"}}

\* the calls of section sec that look for, or click, its activating element
Attempts(sec, op, arg) ==
    {i \in DOMAIN trace : trace[i].op = op /\ trace[i].arg = arg /\ SectionAt(i) = sec}

Lookups(sec) ==
    IF backend = "basic" THEN Attempts(sec, "find", TabOf(sec))
    ELSE Attempts(sec, "find_all", "button")

IsEmpty(sec) ==
    IF backend = "basic" /\ sec = "stats"
    THEN /\ record["stats"]["performance"] = EmptyDict
         /\ record["stats"]["trades"] = EmptyDict
    ELSE record[KeyOf(sec)] = <<>>

AbsentCase(sec) ==
    /\ sec \in Range(Order) /\ Entered(sec) /\ Lost = {}
    /\ page.tabs[TabOf(sec)] = "absent"

NavigatorQuiet(sec) ==
    /\ Cardinality(Lookups(sec)) = 1
    /\ Attempts(sec, "click", TabOf(sec)) = {}
    /\ pending = NoExc
    /\ "error" \notin DOMAIN record

UrlOf(u) == "https://www.etoro.com/people/" \o u

EmptySections ==
    /\ (backend = "basic" /\ page.items = <<>>) =>
           (record["portfolio"] = <<>> /\ record["trade_history"] = <<>>)
    /\ backend = "advanced" =>
           /\ record["trade_history"] = <<>>
           /\ page.source = <<>> => record["portfolio"] = <<>>
           /\ page.body = <<>> => record["open_trades"] = <<>>

Identified(key) ==
    /\ record["username"] = username
    /\ key \in DOMAIN record
    /\ record[key] = UrlOf(username)
    /\ \E i \in Positions("get") : trace[i].arg = record[key] /\ trace[i].res = "ok"

RECURSIVE Sym(_)
Sym(i) ==
    IF i = 0 THEN <<>>
    ELSE Sym((i - 1) \div 2) \o <<IF (i - 1) % 2 = 0 THEN "A" ELSE "B">>

\* "$A $B $AA ..." : the first n symbols, each once
RECURSIVE Listing(_, _)
Listing(i, n) ==
    IF i > n THEN <<>> ELSE <<"$">> \o Sym(i) \o <<" ">> \o Listing(i + 1, n)

\* what follows the listing: nothing; a symbol twice again and a word with
\* no $; a run of six letters; a symbol glued to a lower-case letter
Extras ==
    { <<>>,
      <<"$", "A", " ", "$", "A", " ", "B", "B", "B", " ">>,
      <<"$", "A", "A", "A", "B", "B", "B">>,
      <<"$", "B", "B", "B", "a">> }

\* a few symbols, as many as the cap, or MaxMoved more
Counts == (0..2) \cup {PortfolioCap, PortfolioCap + MaxMoved}

PortfolioSources == {Listing(1, n) \o x : n \in Counts, x \in Extras}

InitPortfolio ==
    /\ backend = "advanced"
    /\ username = "thomaspj"
    /\ creds = FALSE
    /\ crashy \in BOOLEAN
    /\ page \in {[PageFull EXCEPT !.source = s, !.tabs["Portfolio"] = st] :
                   s \in PortfolioSources, st \in TabStates}
    /\ pc = "portfolio"
    /\ session = "alive"
    /\ record = AdvancedRecord(username)
    /\ trace = <<>>
    /\ pending = NoExc

NextPortfolio == GetPortfolioData

SpecPortfolio == InitPortfolio /\ [][NextPortfolio]_vars

\* the symbols that stand in text as "$", one to five capital letters, and
\* then no further word character
SymbolTokens(text) ==
    LET dollars == {i \in 1..Len(text) : text[i] = "$"}
        ends(i) == {k \in 1..SymbolMax :
                      /\ i + k <= Len(text)
                      /\ \A j \in (i + 1)..(i + k) : text[j] \in Upper
                      /\ (i + k = Len(text) \/ ~IsWord(text[i + k + 1]))}
    IN  UNION {{SubSeq(text, i + 1, i + k) : k \in ends(i)} : i \in dollars}

\* where symbol s first stands in text
FirstAt(text, s) ==
    LET at == {i \in 1..Len(text) :
                 /\ text[i] = "$" /\ i + Len(s) <= Len(text)
                 /\ SubSeq(text, i + 1, i + Len(s)) = s
                 /\ (i + Len(s) = Len(text) \/ ~IsWord(text[i + Len(s) + 1]))}
    IN  CHOOSE i \in at : \A j \in at : i <= j

\* every symbol of text that is not in kept first stands after all those in kept
KeepsEarliest(text, kept) ==
    \A t \in SymbolTokens(text) \ kept :
        \A s \in kept : FirstAt(text, s) < FirstAt(text, t)

\* get_portfolio_data has returned and had read driver.page_source
PortfolioDone ==
    /\ "portfolio" \in DOMAIN record
    /\ \E i \in Positions("page_source") : trace[i].res = "ok"

Deduplicated ==
    LET out == record["portfolio"]
    IN  /\ Cardinality(Range(out)) = Len(out)
        /\ Len(out) <= 50
        /\ Range(out) \subseteq SymbolTokens(page.source)
        /\ Len(out) = Min(50, Cardinality(SymbolTokens(page.source)))

MaxPieces == 5

Pieces == {BUY, SELL, <<"A">>, <<"a">>, <<" ">>}

RECURSIVE Flatten(_)
Flatten(ps) == IF ps = <<>> THEN <<>> ELSE ps[1] \o Flatten(Tail(ps))

TradeTexts == {Flatten(ps) : ps \in UNION {[1..n -> Pieces] : n \in 0..MaxPieces}}

InitTrades ==
    /\ backend = "advanced"
    /\ username = "thomaspj"
    /\ creds = FALSE
    /\ crashy = FALSE
    /\ page \in {[PageFull EXCEPT !.body = t] : t \in TradeTexts}
    /\ pc = "open_trades"
    /\ session = "alive"
    /\ record = AdvancedRecord(username)
    /\ trace = <<>>
    /\ pending = NoExc

NextTrades == GetOpenTrades

SpecTrades == InitTrades /\ [][NextTrades]_vars

\* the words of text: its maximal runs of characters other than white space
RECURSIVE Words(_, _, _)
Words(text, i, word) ==
    IF i > Len(text) THEN (IF word = <<>> THEN <<>> ELSE <<word>>)
    ELSE IF text[i] \in Space
         THEN (IF word = <<>> THEN <<>> ELSE <<word>>) \o Words(text, i + 1, <<>>)
         ELSE Words(text, i + 1, Append(word, text[i]))

IsSymbolToken(w) == Len(w) \in 1..5 /\ \A i \in 1..Len(w) : w[i] \in Upper

\* the pairs the claim describes: each word BUY or SELL with the symbol
\* token that follows it, in text order
RECURSIVE PairsFrom(_, _)
PairsFrom(ws, i) ==
    IF i >= Len(ws) THEN <<>>
    ELSE (IF ws[i] \in {BUY, SELL} /\ IsSymbolToken(ws[i + 1])
          THEN <<[action |-> ws[i], symbol |-> ws[i + 1]]>> ELSE <<>>)
         \o PairsFrom(ws, i + 1)

(***************************************************************************)
(* C9.  get_open_trades returns, in text order, one {action, symbol} pair  *)
(* for each BUY or SELL token followed by white space and a symbol token,  *)
(* the symbol being the token right after the action.                      *)
(* Fails: the pattern has no word boundaries and consumes what it matches, *)
(* so it pairs BUY inside a longer word, cuts a letter run to a symbol,    *)
(* and skips an action that was taken as the symbol of the one before.     *)
(***************************************************************************)
C9_PairsTokens ==
    "open_trades" \in DOMAIN record =>
        record["open_trades"] = PairsFrom(Words(page.body, 1, <<>>), 1)

(***************************************************************************)
(* Rules of one extractor pass.                                            *)
(***************************************************************************)
RuleSections == Range(Order) \cap {"profile", "stats", "performance", "trading"}

\* the fields the rules of pass sec fill
RulesOf(sec) ==
    IF backend = "basic"
    THEN (IF sec = "profile" THEN {"name", "copiers", "risk_score"}
          ELSE {"gain", "total", "win_rate"})
    ELSE CASE sec = "profile" -> ProfilePatterns \cup {"name"}
           [] sec = "performance" -> PerformanceMetrics
           [] sec = "trading" -> TradingPatterns

\* the figures of the page that the rule of field f reads
OwnLabels(sec, f) ==
    IF backend = "basic" /\ sec = "stats"
    THEN CASE f = "gain" -> GainLabels [] f = "total" -> TradesLabels
           [] f = "win_rate" -> WinLabels
    ELSE {f} \cap Labels

\* page p with everything that other rules read put back in place: the
\* view (tabs) stays, the elements of the rule of f stay
OwnPage(p, sec, f) ==
    [PageFull EXCEPT
        !.tabs = p.tabs,
        !.h1 = IF f = "name" THEN p.h1 ELSE TRUE,
        !.labels = Labels \ (OwnLabels(sec, f) \ p.labels),
        !.sibling = IF f = "gain" THEN p.sibling ELSE TRUE,
        !.risk = IF f = "risk_score" THEN p.risk ELSE RiskFull]

\* field f in the value d of pass sec: <<v>>, or <<>> when it is not there
FieldIn(d, sec, f) ==
    LET at == IF backend = "basic" /\ sec = "stats"
              THEN d[IF f = "gain" THEN "performance" ELSE "trades"]
              ELSE d
    IN  IF f \in DOMAIN at THEN <<at[f]>> ELSE <<>>

\* the selector the rule of f looks up, "" for a rule over the body text
SelectorOf(sec, f) ==
    IF backend = "basic"
    THEN CASE f = "name" -> "h1"       [] f = "copiers" -> "Copiers"
           [] f = "risk_score" -> "Risk Score"
           [] f = "gain" -> "Gain"     [] f = "total" -> "Trades"
           [] f = "win_rate" -> "Win"
    ELSE IF f = "name" THEN "h1" ELSE ""

\* the rule of f was looked up once in pass sec (a rule of scrape_stats
\* only when the body text shows one of its figures)
LookedUp(sec, f) ==
    LET sel == SelectorOf(sec, f)
        n   == Cardinality(Attempts(sec, "find", sel) \cup Attempts(sec, "wait", sel))
    IN  IF sel = "" THEN TRUE
        ELSE IF backend = "basic" /\ sec = "stats" /\ OwnLabels(sec, f) \cap page.labels = {}
        THEN n = 0
        ELSE n = 1

\* pass sec has just run, in a session that was not lost
PassDone(sec) ==
    /\ pc = NextOf(sec) /\ Entered(sec)
    /\ KeyOf(sec) \in DOMAIN record /\ Lost = {}

(***************************************************************************)
(* C11.  Within a pass (scrape_profile, scrape_stats, get_profile_info,    *)
(* get_performance_stats, get_trading_stats) every rule is evaluated and   *)
(* its field is what it is on the page where every other rule finds its    *)
(* element: no failure of another rule or lookup of the pass (no match,    *)
(* absent element, time-out) skips a rule, removes its field or changes    *)
(* it.  The activation of a tab is the navigator's, not a rule.            *)
(***************************************************************************)
C11_RulesIndependent ==
    \A sec \in RuleSections : PassDone(sec) =>
        \A f \in RulesOf(sec) :
            /\ LookedUp(sec, f)
            /\ FieldIn(record[KeyOf(sec)], sec, f)
                   = FieldIn(CleanOn(OwnPage(page, sec, f), sec), sec, f)

\* the name lookup failed and the other profile fields are there; or a
\* figure was missing and the name is there
C11_Witness ==
    /\ Returned /\ Lost = {}
    /\ \/ /\ backend = "basic" /\ ~page.h1
          /\ record["profile"]["name"] = NA
          /\ record["profile"]["copiers"] = ElemText("copiers")
       \/ /\ backend = "advanced" /\ "copiers" \notin page.labels
          /\ record["profile_info"]["name"] = NameText

(***************************************************************************)
(* The profile pass of either backend on its own, over pages whose risk    *)
(* figure is written in many ways.                                         *)
(***************************************************************************)
MaxParts == 3

RiskParts == {Risk, LowRisk, Score, LowScore, <<" ">>, <<"7">>}

\* what stands before the figure: up to MaxParts parts
Befores == {Flatten(ps) : ps \in UNION {[1..n -> RiskParts] : n \in 0..MaxParts}}

RiskScore42 == RiskScore \o <<" ", "4", "2">>

\* the figure with what follows it, or no figure
Figures ==
    {<<>>} \cup {RiskScore42 \o x : x \in {<<>>, <<" ">>, <<"7">>, <<" ", "7">>}}

\* the text in one element, or what stands before in an element of its own
Layouts(b, f) == {SelectSeq(<<b \o f>>, LAMBDA e : e # <<>>),
                  SelectSeq(<<b, f>>, LAMBDA e : e # <<>>)}

RiskLists == UNION {Layouts(b, f) : b \in Befores, f \in Figures}

InitRisk ==
    /\ backend \in {"basic", "advanced"}
    /\ username = "thomaspj"
    /\ creds = FALSE
    /\ crashy = FALSE
    /\ page \in {[PageFull EXCEPT !.risk = r] : r \in RiskLists}
    /\ pc = "profile"
    /\ session = "alive"
    /\ record = IF backend = "basic" THEN BasicRecord(username) ELSE AdvancedRecord(username)
    /\ trace = <<>>
    /\ pending = NoExc

NextRisk == ScrapeProfile \/ GetProfileInfo

SpecRisk == InitRisk /\ [][NextRisk]_vars

\* position k holds the first digit of a figure that starts at position i:
\* risk, white space or none, score, white space or none, a digit
FigureAt(text, i, k) ==
    \E j \in (i + 4)..(k - 5) :
        /\ SubSeq(text, i, i + 3) \in {Risk, LowRisk}
        /\ \A m \in (i + 4)..(j - 1) : text[m] \in Space
        /\ SubSeq(text, j, j + 4) \in {Score, LowScore}
        /\ \A m \in (j + 5)..(k - 1) : text[m] \in Space
        /\ text[k] \in Digits

\* the number of the first figure in text
FirstNumber(text) ==
    LET occ == {<<i, k>> \in (1..Len(text)) \X (1..Len(text)) : FigureAt(text, i, k)}
        o   == CHOOSE o \in occ : \A q \in occ : o[1] <= q[1]
        e   == CHOOSE e \in o[2]..Len(text) :
                   /\ \A m \in o[2]..e : text[m] \in Digits
                   /\ (e = Len(text) \/ text[e + 1] \notin Digits)
    IN  SubSeq(text, o[2], e)

ProfileKey == IF backend = "basic" THEN "profile" ELSE "profile_info"

\* the profile pass has run on a page whose text holds "Risk Score 42"
RiskShown ==
    /\ Entered("profile") /\ ProfileKey \in DOMAIN record /\ Lost = {}
    /\ Contains(Lines(page.risk), RiskScore42)

(***************************************************************************)
(* C12.  On a page whose text contains "Risk Score 42" the risk_score      *)
(* field of the profile is the captured number of the first occurrence of  *)
(* the figure ("42" when that is the first), not the text around it, in    *)
(* both backends.                                                          *)
(* Fails for scrape_profile, which stores the whole text of the element    *)
(* that contains "Risk Score".                                             *)
(***************************************************************************)
C12_CapturedGroup ==
    RiskShown =>
        /\ "risk_score" \in DOMAIN record[ProfileKey]
        /\ record[ProfileKey]["risk_score"] = Str(FirstNumber(Lines(page.risk)))

(***************************************************************************)
(* C13.  Every navigation and every click that succeeds is followed at     *)
(* once by a settle delay, before any other call on the session; and a     *)
(* delay is taken only there: none where the activating element of a       *)
(* section was not found or its click failed.                              *)
(***************************************************************************)
\* the navigations and clicks that succeeded
Settling == {i \in Positions("get") \cup Positions("click") : trace[i].res = "ok"}

\* the sections whose tab was looked for and not clicked with success
Unactivated ==
    {sec \in Navigated \cap Range(Order) :
        /\ Entered(sec) /\ NextOf(sec) \in Range(EnteredSeq) \cup {pc}
        /\ \A i \in Attempts(sec, "click", TabOf(sec)) : trace[i].res # "ok"}

C13_SettleDelays ==
    /\ \A i \in Settling : i < Len(trace) /\ trace[i + 1].op = "sleep"
    /\ \A j \in Positions("sleep") : j - 1 \in Settling
    /\ \A sec \in Unactivated : \A j \in Positions("sleep") : SectionAt(j) # sec

\* a run that logged in, met a tab that was not there, and clicked the others
C13_Witness ==
    /\ Returned /\ Lost = {}
    /\ \E t \in Tabs : page.tabs[t] # "ok"
    /\ \E i \in Settling : trace[i].op = "click" /\ trace[i].arg \in Tabs
    /\ \E i \in Settling : trace[i].op = "get"
    /\ Unactivated # {}

(***************************************************************************)
(* The item-list passes on their own, over pages with more elements than   *)
(* the caps and with elements of empty text among them.                    *)
(***************************************************************************)
MaxOver == 1
MaxHoles == 2

\* a page's elements: n of them, those at the positions in holes without text
ItemsOf(n, holes) == [i \in 1..n |-> IF i \in holes THEN "" ELSE "item " \o ToString(i)]

LongLists ==
    {ItemsOf(n, holes) : n \in 0..(HistoryItemCap + MaxOver),
                         holes \in UpTo(1..(PortfolioItemCap + MaxOver), MaxHoles)}

InitItems ==
    /\ backend \in {"basic", "advanced"}
    /\ username = "thomaspj"
    /\ creds = FALSE
    /\ crashy = FALSE
    /\ page \in {[PageFull EXCEPT !.items = l] : l \in LongLists}
    /\ pc = IF backend = "basic" THEN "portfolio" ELSE "history"
    /\ session = "alive"
    /\ record = IF backend = "basic" THEN BasicRecord(username) ELSE AdvancedRecord(username)
    /\ trace = <<>>
    /\ pending = NoExc

NextItems == ScrapePortfolio \/ ScrapeTradeHistory \/ GetTradeHistory

SpecItems == InitItems /\ [][NextItems]_vars

\* the texts of the items of a list of the record
TextsOf(items) == [i \in 1..Len(items) |-> items[i].text]

\* the first n elements with text, in page order
FirstWithText(elems, n) == Take(SelectSeq(elems, LAMBDA t : t # ""), n)

CapOf(sec) == IF sec = "portfolio" THEN 10 ELSE 20

\* the item-list passes that have run
ItemPasses ==
    {sec \in {"portfolio", "history"} \cap Range(Order) :
        /\ Entered(sec) /\ Lost = {}
        /\ backend = "basic" \/ sec = "history"}

(***************************************************************************)
(* C14.  scrape_portfolio (cap 10) and the trade-history pass of each      *)
(* backend (cap 20) return, in page order, the first N elements that have  *)
(* text: never more than N, none without text, and an element with text    *)
(* is left out only when N with text precede it.                           *)
(* Fails: get_trade_history returns no item at all, and the selector       *)
(* passes cut the elements to the first N before they drop those without   *)
(* text.                                                                   *)
(***************************************************************************)
C14_FirstItemsWithText ==
    \A sec \in ItemPasses :
        TextsOf(record[KeyOf(sec)]) = FirstWithText(page.items, CapOf(sec))
====
